---- MODULE Spec2Model ----
(***************************************************************************)
(* cache-fs: a read-only FUSE filesystem that serves a remote directory    *)
(* from a local cache populated lazily on first open (src/main.rs).        *)
(*                                                                         *)
(* The module models the dispatcher CacheFs (lookup, getattr, open, read,  *)
(* release, opendir, readdir, releasedir, readlink) over the FileTree, the *)
(* HandleTable (opened_files), the cache directory on disk (files under    *)
(* {cache_dir}/root and the single temp file {cache_dir}/tmp.file), and    *)
(* the construction of the FileTree: load_or_build, build, save, load.     *)
(*                                                                         *)
(* The specifications share the variables:                                 *)
(*   Spec         open / release / crash, with open's populate sequence    *)
(*                split at every filesystem call;                          *)
(*   SpecRead     read on handles left by successful opens, with the loop  *)
(*                of positional reads split at every read_at;              *)
(*   SpecReaddir  readdir enumerations under varying reply-buffer          *)
(*                capacities;                                              *)
(*   SpecDispatch all nine operations of the dispatcher on one tree;       *)
(*   SpecHandles  opens, reads and releases of two files, also on handles  *)
(*                the HandleTable does not hold;                           *)
(*   SpecBuild    load_or_build: load, the scan entry by entry with its    *)
(*                per-entry failures, save, and the next mount;            *)
(*   SpecCache    opens, reads and releases while the remote file is       *)
(*                rewritten or removed between filesystem calls.           *)
(***************************************************************************)
EXTENDS Integers, Sequences, FiniteSets, TLC

VARIABLES
    tree,          \* CacheFs.tree: FileTree.inode_to_path, ino -> FileInfo
    remote,        \* regular files under remote_dir: relative path -> bytes
    cache_files,   \* regular files under cache_dir ({cache}/root): path -> bytes
    cache_dirs,    \* directories under cache_dir; <<>> is {cache}/root itself
    tmp_file,      \* cache_tmp_file: <<>> when absent, <<bytes>> when present
    opened_files,  \* CacheFs.opened_files: ino -> FileHandle [file, count]
    read_buffer,   \* CacheFs.read_buffer
    pc,            \* position of the dispatcher inside the running operation
    call,          \* the operation being served (or last served) and its arguments
    bo,            \* read: bytes placed in the buffer so far
    replies,       \* replies sent for `call`, in order
    balance,       \* history: successful opens minus successful releases, per ino
    desc,          \* history: descriptors created / closed per ino since its entry was last absent
    crashed,       \* history: the process was killed at least once
    rd,            \* readdir session of the kernel: directory, next offset, entries received
    scan,          \* FileTree::build in progress: ino_counter, dirs, all_dirs, the listing being read
    snap           \* load_or_build: the snapshot file {cache_dir}/cache-fs.tree.zst and the call's position

vars == << tree, remote, cache_files, cache_dirs, tmp_file, opened_files,
           read_buffer, pc, call, bo, replies, balance, desc, crashed, rd, scan, snap >>

(***************************************************************************)
(* Bounds of the model.                                                    *)
(***************************************************************************)
\* longest remote file, in bytes
MaxLen == 2
\* largest open-count a handle is driven to
MaxCount == 3
\* most children of a directory enumerated by readdir
MaxChildren == 3
\* most entries one readdir reply buffer accepts
MaxCap == 2
\* largest size of a read request, in bytes
MaxSize == 3

(***************************************************************************)
(* libc constants (Linux).                                                 *)
(***************************************************************************)
O_ACCMODE == 3
O_RDONLY == 0
O_WRONLY == 1
O_RDWR == 2
O_CREAT == 64
O_EXCL == 128
O_TRUNC == 512
O_APPEND == 1024

\* c_int bitwise and, on non-negative values
RECURSIVE BitAnd(_, _)
BitAnd(a, b) ==
    IF a = 0 \/ b = 0 THEN 0
    ELSE (a % 2) * (b % 2) + 2 * BitAnd(a \div 2, b \div 2)

\* Option<T>
None == << >>
Some(x) == << x >>
IsSome(o) == Len(o) = 1
Unwrap(o) == o[1]

(***************************************************************************)
(* FileTree                                                                *)
(***************************************************************************)
\* FileInfo; type_extra is flattened into kind + children + link.
\* children is the HashMap in its (fixed) iteration order: <<name, ino>> pairs.
\* attr is cut down to ino and kind.
FileInfo(ino, parent, path, kind, children, link) ==
    [parent |-> parent, path |-> path, attr |-> [ino |-> ino, kind |-> kind],
     children |-> children, link |-> link]

\* The tree built from the remote directory
\*   a.txt, dir/, dir/b.bin
ScenarioTree ==
    (1 :> FileInfo(1, 0, << >>, "Directory", << <<"a.txt", 2>>, <<"dir", 3>> >>, ""))
    @@ (2 :> FileInfo(2, 1, <<"a.txt">>, "RegularFile", << >>, ""))
    @@ (3 :> FileInfo(3, 1, <<"dir">>, "Directory", << <<"b.bin", 4>> >>, ""))
    @@ (4 :> FileInfo(4, 3, <<"dir", "b.bin">>, "RegularFile", << >>, ""))

\* file names of the flat trees readdir is run on
Names == << "f1", "f2", "f3", "f4", "f5", "f6" >>

\* a tree whose root holds n regular files, inodes 2 .. n + 1
FlatTree(n) ==
    [i \in 1..(n + 1) |->
        IF i = 1
        THEN FileInfo(1, 0, << >>, "Directory", [k \in 1..n |-> << Names[k], k + 1 >>], "")
        ELSE FileInfo(i, 1, << Names[i - 1] >>, "RegularFile", << >>, "")]

DirTrees == { FlatTree(n) : n \in 0..MaxChildren } \cup { ScenarioTree }

\* FileTree::file
TreeFile(ino) == IF ino \in DOMAIN tree THEN Some(tree[ino]) ELSE None

\* FileTree::folder
TreeFolder(ino) ==
    IF ino \in DOMAIN tree /\ tree[ino].attr.kind = "Directory"
    THEN Some(tree[ino]) ELSE None

RegularInos == { i \in DOMAIN tree : tree[i].attr.kind = "RegularFile" }

\* an inode number the tree does not hold
AbsentIno == Cardinality(DOMAIN ScenarioTree) + 5
Inos == DOMAIN ScenarioTree \cup {AbsentIno}

\* contents a remote file may have: k bytes, every byte distinct
Bytes(k) == [i \in 1..k |-> i]
Contents == { Bytes(k) : k \in 0..MaxLen }
\* the same with other byte values, so that no byte of dir/b.bin is in a.txt
OtherBytes(k) == [i \in 1..k |-> 10 + i]
OtherContents == { OtherBytes(k) : k \in 0..MaxLen }

\* the remote directories the model starts from: both files of every length
RemoteTrees ==
    { (<<"a.txt">> :> c) @@ (<<"dir", "b.bin">> :> d) :
        c \in Contents, d \in OtherContents }

\* the kernel sends open for regular files only (directories go to opendir);
\* an inode number of an earlier mount may be unknown to the tree
OpenInos == { i \in DOMAIN ScenarioTree : ScenarioTree[i].attr.kind = "RegularFile" } \cup {AbsentIno}

(***************************************************************************)
(* FileHandle                                                              *)
(***************************************************************************)
\* FileHandle::new
FileHandle_new(file) == [file |-> file, count |-> 1]
\* FileHandle::open
FileHandle_openKeepsCount(h) == h
FileHandle_open(h) == [h EXCEPT !.count = @ + 1]
\* FileHandle::close: the handle after the decrement; the bool result is CloseIsLast
FileHandle_close(h) == [h EXCEPT !.count = @ - 1]
CloseIsLastOneEarly(h) == FileHandle_close(h).count <= 1
CloseIsLastNever(h) == FileHandle_close(h).count < 0
CloseIsLast(h) == FileHandle_close(h).count = 0

\* HashMap::remove / HashMap::insert on opened_files
MapRemove(m, k) == [x \in DOMAIN m \ {k} |-> m[x]]
MapInsert(m, k, v) == [x \in DOMAIN m \cup {k} |-> IF x = k THEN v ELSE m[x]]

(***************************************************************************)
(* Replies                                                                 *)
(***************************************************************************)
Reply(kind, err, fh, data) == [kind |-> kind, err |-> err, fh |-> fh, data |-> data]
ReplyError(e) == Reply("error", e, 0, << >>)
\* reply.opened(fh, flags): data carries the open-flags
ReplyOpenedFlags(fh, flags) == Reply("opened", "", fh, << flags >>)
\* every opened reply of the dispatcher passes flags 0 (lines 374, 439, 519)
ReplyOpenedAsError(fh) == ReplyError("EIO")
ReplyOpened(fh) == ReplyOpenedFlags(fh, 0)
ReplyData(d) == Reply("data", "", 0, d)
ReplyOk == Reply("ok", "", 0, << >>)

\* errhandle
errhandle(kind) ==
    CASE kind = "PermissionDenied" -> "EPERM"
      [] kind = "NotFound" -> "ENOENT"
      [] OTHER -> "EIO"
ErrorKinds == {"PermissionDenied", "NotFound", "Other"}

Call(op, ino, fh, flags, offset, size) ==
    [op |-> op, ino |-> ino, fh |-> fh, flags |-> flags, offset |-> offset, size |-> size]
NoCall == Call("none", 0, 0, 0, 0, 0)

NoDesc == [created |-> 0, closed |-> 0]
NoSession == [ino |-> 0, offset |-> 0, entries |-> << >>, calls |-> 0, cut |-> FALSE, done |-> FALSE]

\* no FileTree::build running
NoScan == [phase |-> "none", ino_counter |-> 0, dirs |-> << >>, all_dirs |-> << >>,
           cur |-> 0, list |-> << >>]
\* no load_or_build running, no snapshot file
NoSnap == [phase |-> "none", file |-> None, via |-> "none", err |-> "none",
           saved |-> << >>, buffered |-> << >>, lost |-> FALSE]

(***************************************************************************)
(* The cache directory                                                     *)
(***************************************************************************)
\* Path::exists on cache_dir.join(entry_path)
CacheExists(p) == p \in DOMAIN cache_files \/ p \in cache_dirs

\* the directories create_dir_all(cache_path.parent()) has to create below
\* {cache}: the first n ancestors of p, {cache}/root first
Ancestors(p, n) == { SubSeq(p, 1, k) : k \in 0..(n - 1) }

\* open flags the kernel may pass
OpenFlags == { O_RDONLY, O_WRONLY, O_ACCMODE,
               O_WRONLY + O_CREAT, O_RDWR + O_APPEND, O_RDONLY + O_TRUNC + O_EXCL }

\* open, line 386: the access-mode bits are one of the three modes
AccModeOk(fl) == BitAnd(fl, O_ACCMODE) \in {O_RDONLY, O_WRONLY, O_RDWR}
\* open, line 390: a creating, appending or truncating flag is set
WrongFlags(fl) ==
    \/ BitAnd(fl, O_EXCL + O_CREAT) # 0
    \/ BitAnd(fl, O_APPEND) = O_APPEND
    \/ BitAnd(fl, O_TRUNC) = O_TRUNC

(***************************************************************************)
(* CacheFs::open                                                           *)
(***************************************************************************)
\* cache_dir.join(entry_path) and remote_dir.join(entry_path): both trees
\* are addressed by the entry's relative path
EntryPath(ino) == tree[ino].path

\* open, lines 372-403: which way the call goes, tested in the code's order
OpenDecisionNoExistsTest(ino, fl) ==
    IF ino \in DOMAIN opened_files THEN "coalesce"
    ELSE IF TreeFile(ino) = None THEN "ENOENT"
    ELSE IF ~AccModeOk(fl) THEN "EINVAL"
    ELSE IF WrongFlags(fl) THEN "EIO"
    ELSE "populate"
OpenDecision(ino, fl) ==
    IF ino \in DOMAIN opened_files THEN "coalesce"
    ELSE IF TreeFile(ino) = None THEN "ENOENT"
    ELSE IF ~AccModeOk(fl) THEN "EINVAL"
    ELSE IF WrongFlags(fl) THEN "EIO"
    ELSE IF ~CacheExists(EntryPath(ino)) THEN "populate"
    ELSE "open"

\* std::fs::copy, line 417: the bytes the next write of n bytes puts into
\* the destination, read from the source at the position reached so far
CopyChunkFromStart(src, copied, n) == SubSeq(src, 1, n)
CopyChunk(src, copied, n) == SubSeq(src, Len(copied) + 1, Len(copied) + n)

\* std::fs::copy, line 417: Ok is returned once the whole source is copied
CopyFinishedAnyLength(src, copied) == TRUE
CopyFinished(src, copied) == Len(copied) = Len(src)

\* the call enters open: handle coalescing, inode resolution, flags filter,
\* cache_path.exists()
OpenCall(ino, fl) ==
    /\ pc = "idle"
    /\ (ino \in DOMAIN opened_files => opened_files[ino].count < MaxCount)
    /\ call' = Call("open", ino, 0, fl, 0, 0)
    /\ LET d == OpenDecision(ino, fl) IN
       /\ opened_files' =
            IF d = "coalesce"
            THEN [opened_files EXCEPT ![ino] = FileHandle_open(@)]
            ELSE opened_files
       /\ replies' =
            CASE d = "coalesce" -> << ReplyOpened(ino) >>
              [] d \in {"ENOENT", "EINVAL", "EIO"} -> << ReplyError(d) >>
              [] OTHER -> << >>
       /\ pc' =
            CASE d = "populate" -> "open_mkdir"
              [] d = "open" -> "open_open"
              [] OTHER -> "idle"
       /\ balance' =
            IF d = "coalesce" THEN [balance EXCEPT ![ino] = @ + 1] ELSE balance
       /\ desc' = desc
    /\ UNCHANGED << tree, remote, cache_files, cache_dirs, tmp_file,
                    read_buffer, bo, crashed, rd, scan, snap >>

\* line 407: create_dir_all(cache_path.parent()) succeeds
OpenMkdirOk ==
    /\ pc = "open_mkdir"
    /\ cache_dirs' = cache_dirs \cup Ancestors(EntryPath(call.ino), Len(EntryPath(call.ino)))
    /\ pc' = "open_copy"
    /\ UNCHANGED << tree, remote, cache_files, tmp_file, opened_files,
                    read_buffer, call, bo, replies, balance, desc, crashed, rd, scan, snap >>

\* lines 407-410: create_dir_all fails after creating n of the ancestors
OpenMkdirErr(n) ==
    /\ pc = "open_mkdir"
    /\ n < Len(EntryPath(call.ino)) \/ n = 0
    /\ cache_dirs' = cache_dirs \cup Ancestors(EntryPath(call.ino), n)
    /\ replies' = Append(replies, ReplyError("EIO"))
    /\ pc' = "idle"
    /\ UNCHANGED << tree, remote, cache_files, tmp_file, opened_files,
                    read_buffer, call, bo, balance, desc, crashed, rd, scan, snap >>

\* line 417: copy opens the remote file and creates (or truncates) tmp.file
OpenCopyBegin ==
    /\ pc = "open_copy"
    /\ EntryPath(call.ino) \in DOMAIN remote
    /\ tmp_file' = Some(<< >>)
    /\ pc' = "open_copy_data"
    /\ UNCHANGED << tree, remote, cache_files, cache_dirs, opened_files,
                    read_buffer, call, bo, replies, balance, desc, crashed, rd, scan, snap >>

\* lines 417-423: copy fails before it touches tmp.file (the source is
\* missing, is a directory, or cannot be opened)
OpenCopyErr ==
    /\ pc = "open_copy"
    /\ replies' = Append(replies, ReplyError("EIO"))
    /\ pc' = "idle"
    /\ UNCHANGED << tree, remote, cache_files, cache_dirs, tmp_file, opened_files,
                    read_buffer, call, bo, balance, desc, crashed, rd, scan, snap >>

\* line 417: copy writes the next n bytes into tmp.file
OpenCopyData(n) ==
    /\ pc = "open_copy_data"
    /\ LET src == remote[EntryPath(call.ino)]
           copied == Unwrap(tmp_file) IN
       /\ ~CopyFinished(src, copied)
       /\ Len(copied) + n <= Len(src)
       /\ tmp_file' = Some(copied \o CopyChunk(src, copied, n))
    /\ UNCHANGED << tree, remote, cache_files, cache_dirs, opened_files,
                    read_buffer, pc, call, bo, replies, balance, desc, crashed, rd, scan, snap >>

\* lines 417-423: copy fails part-way; what was written stays in tmp.file
OpenCopyAbort ==
    /\ pc = "open_copy_data"
    /\ replies' = Append(replies, ReplyError("EIO"))
    /\ pc' = "idle"
    /\ UNCHANGED << tree, remote, cache_files, cache_dirs, tmp_file, opened_files,
                    read_buffer, call, bo, balance, desc, crashed, rd, scan, snap >>

\* line 417: copy returns Ok
OpenCopyEnd ==
    /\ pc = "open_copy_data"
    /\ CopyFinished(remote[EntryPath(call.ino)], Unwrap(tmp_file))
    /\ pc' = "open_rename"
    /\ UNCHANGED << tree, remote, cache_files, cache_dirs, tmp_file, opened_files,
                    read_buffer, call, bo, replies, balance, desc, crashed, rd, scan, snap >>

\* line 425: rename(tmp.file, cache_path) succeeds
OpenRenameOk ==
    /\ pc = "open_rename"
    /\ cache_files' = MapInsert(cache_files, EntryPath(call.ino), Unwrap(tmp_file))
    /\ tmp_file' = None
    /\ pc' = "open_open"
    /\ UNCHANGED << tree, remote, cache_dirs, opened_files,
                    read_buffer, call, bo, replies, balance, desc, crashed, rd, scan, snap >>

\* lines 425-434: rename fails; remove_file(cache_path) is tried and its
\* result ignored; tmp.file is not touched
OpenRenameErr ==
    /\ pc = "open_rename"
    /\ cache_files' = MapRemove(cache_files, EntryPath(call.ino))
    /\ replies' = Append(replies, ReplyError("EIO"))
    /\ pc' = "idle"
    /\ UNCHANGED << tree, remote, cache_dirs, tmp_file, opened_files,
                    read_buffer, call, bo, balance, desc, crashed, rd, scan, snap >>

\* lines 437-442: oo.open(cache_path) returns a descriptor
OpenOpenOk ==
    /\ pc = "open_open"
    /\ CacheExists(EntryPath(call.ino))
    /\ opened_files' = MapInsert(opened_files, call.ino, FileHandle_new(EntryPath(call.ino)))
    /\ replies' = Append(replies, ReplyOpened(call.ino))
    /\ balance' = [balance EXCEPT ![call.ino] = @ + 1]
    /\ desc' = [desc EXCEPT ![call.ino] =
                  IF call.ino \in DOMAIN opened_files
                  THEN [@ EXCEPT !.created = @ + 1]
                  ELSE [created |-> 1, closed |-> 0]]
    /\ pc' = "idle"
    /\ UNCHANGED << tree, remote, cache_files, cache_dirs, tmp_file,
                    read_buffer, call, bo, crashed, rd, scan, snap >>

\* lines 437-438: oo.open(cache_path) fails with an error of the given kind
OpenOpenErr(kind) ==
    /\ pc = "open_open"
    /\ ~CacheExists(EntryPath(call.ino)) => kind = "NotFound"
    /\ replies' = Append(replies, ReplyError(errhandle(kind)))
    /\ pc' = "idle"
    /\ UNCHANGED << tree, remote, cache_files, cache_dirs, tmp_file, opened_files,
                    read_buffer, call, bo, balance, desc, crashed, rd, scan, snap >>

(***************************************************************************)
(* CacheFs::release; the kernel passes the fh that open replied, the ino   *)
(***************************************************************************)
Release(fh) ==
    /\ pc = "idle"
    /\ call' = Call("release", fh, fh, 0, 0, 0)
    /\ IF fh \notin DOMAIN opened_files
       THEN /\ replies' = << ReplyError("EIO") >>
            /\ UNCHANGED << opened_files, balance, desc >>
       ELSE LET file_handle == opened_files[fh] IN
            /\ opened_files' =
                 IF ~CloseIsLast(file_handle)
                 THEN MapInsert(MapRemove(opened_files, fh), fh, FileHandle_close(file_handle))
                 ELSE MapRemove(opened_files, fh)
            /\ replies' = << ReplyOk >>
            /\ balance' = [balance EXCEPT ![fh] = @ - 1]
            /\ desc' = [desc EXCEPT ![fh] =
                          [@ EXCEPT !.closed = @ + (IF CloseIsLast(file_handle) THEN 1 ELSE 0)]]
    /\ UNCHANGED << tree, remote, cache_files, cache_dirs, tmp_file,
                    read_buffer, pc, bo, crashed, rd, scan, snap >>

(***************************************************************************)
(* The process is killed at any point and the filesystem is mounted again: *)
(* the disk keeps its state, the new process starts with an empty          *)
(* HandleTable and an empty read buffer (CacheFs::new).                    *)
(***************************************************************************)
Crash ==
    /\ opened_files' = << >>
    /\ read_buffer' = << >>
    /\ pc' = "idle"
    /\ call' = NoCall
    /\ bo' = 0
    /\ replies' = << >>
    /\ balance' = [i \in Inos |-> 0]
    /\ desc' = [i \in Inos |-> NoDesc]
    /\ crashed' = TRUE
    /\ UNCHANGED << tree, remote, cache_files, cache_dirs, tmp_file, rd, scan, snap >>

(***************************************************************************)
(* Spec: the state after CacheFs::new on an empty cache directory          *)
(***************************************************************************)
Init ==
    /\ tree = ScenarioTree
    /\ remote \in RemoteTrees
    /\ cache_files = << >>
    /\ cache_dirs = {}
    /\ tmp_file = None
    /\ opened_files = << >>
    /\ read_buffer = << >>
    /\ pc = "idle"
    /\ call = NoCall
    /\ bo = 0
    /\ replies = << >>
    /\ balance = [i \in Inos |-> 0]
    /\ desc = [i \in Inos |-> NoDesc]
    /\ crashed = FALSE
    /\ rd = NoSession
    /\ scan = NoScan
    /\ snap = NoSnap

Next ==
    \/ \E ino \in OpenInos, fl \in OpenFlags : OpenCall(ino, fl)
    \/ OpenMkdirOk
    \/ \E n \in 0..2 : OpenMkdirErr(n)
    \/ OpenCopyBegin
    \/ OpenCopyErr
    \/ \E n \in 1..MaxLen : OpenCopyData(n)
    \/ OpenCopyAbort
    \/ OpenCopyEnd
    \/ OpenRenameOk
    \/ OpenRenameErr
    \/ OpenOpenOk
    \/ \E kind \in ErrorKinds : OpenOpenErr(kind)
    \/ \E fh \in Inos : Release(fh)
    \/ Crash

Spec == Init /\ [][Next]_vars

(***************************************************************************)
(* CacheFs::read                                                           *)
(***************************************************************************)
\* Vec::resize(n, 0)
Resize(b, n) == [i \in 1..n |-> IF i <= Len(b) THEN b[i] ELSE 0]

\* the bytes of the file behind a handle (a descriptor keeps naming the file
\* it was opened on)
HandleBytes(fh) == cache_files[opened_files[fh].file]

\* line 474: the file position the read_at of this iteration is given
ReadPos(offset, done) == offset

\* lines 458-468: handle lookup, the scratch buffer is sized to the request
ReadCall(fh, offset, size) ==
    /\ pc = "idle"
    /\ call' = Call("read", fh, fh, 0, offset, size)
    /\ IF fh \notin DOMAIN opened_files
       THEN /\ replies' = << ReplyError("EIO") >>
            /\ UNCHANGED << read_buffer, pc, bo >>
       ELSE /\ read_buffer' = IF Len(read_buffer) # size THEN Resize(read_buffer, size)
                              ELSE read_buffer
            /\ bo' = 0
            /\ replies' = << >>
            /\ pc' = "read_loop"
    /\ UNCHANGED << tree, remote, cache_files, cache_dirs, tmp_file, opened_files,
                    balance, desc, crashed, rd, scan, snap >>

\* lines 473-482: read_at fills ret >= 1 bytes of b[bo..]; a positional read
\* may return fewer bytes than the buffer holds and the file has
ReadAtOk(ret) ==
    /\ pc = "read_loop"
    /\ bo < call.size
    /\ LET file == HandleBytes(call.fh)
           pos == ReadPos(call.offset, bo) IN
       /\ ret <= call.size - bo
       /\ pos + ret <= Len(file)
       /\ read_buffer' = [i \in 1..Len(read_buffer) |->
                            IF i > bo /\ i <= bo + ret
                            THEN file[pos + (i - bo)] ELSE read_buffer[i]]
    /\ bo' = bo + ret
    /\ UNCHANGED << tree, remote, cache_files, cache_dirs, tmp_file, opened_files,
                    pc, call, replies, balance, desc, crashed, rd, scan, snap >>

\* lines 476-479, 486: read_at returns 0 (the position is at or past the
\* end of the file); the buffer is cut to bo and replied
ReadAtEof ==
    /\ pc = "read_loop"
    /\ bo < call.size
    /\ ReadPos(call.offset, bo) >= Len(HandleBytes(call.fh))
    /\ read_buffer' = Resize(read_buffer, bo)
    /\ replies' = Append(replies, ReplyData(read_buffer'))
    /\ pc' = "idle"
    /\ UNCHANGED << tree, remote, cache_files, cache_dirs, tmp_file, opened_files,
                    call, bo, balance, desc, crashed, rd, scan, snap >>

\* line 475: read_at fails
ReadAtErr(kind) ==
    /\ pc = "read_loop"
    /\ bo < call.size
    /\ replies' = Append(replies, ReplyError(errhandle(kind)))
    /\ pc' = "idle"
    /\ UNCHANGED << tree, remote, cache_files, cache_dirs, tmp_file, opened_files,
                    read_buffer, call, bo, balance, desc, crashed, rd, scan, snap >>

\* lines 473, 486: the loop ends with the buffer full
ReadReply ==
    /\ pc = "read_loop"
    /\ bo >= call.size
    /\ replies' = Append(replies, ReplyData(read_buffer))
    /\ pc' = "idle"
    /\ UNCHANGED << tree, remote, cache_files, cache_dirs, tmp_file, opened_files,
                    read_buffer, call, bo, balance, desc, crashed, rd, scan, snap >>

\* SpecRead starts in the states Spec reaches by one successful
\* open(a.txt, O_RDONLY) on an empty cache
InitRead ==
    /\ tree = ScenarioTree
    /\ remote \in RemoteTrees
    /\ cache_files = (<<"a.txt">> :> remote[<<"a.txt">>])
    /\ cache_dirs = { << >> }
    /\ tmp_file = None
    /\ opened_files = (2 :> FileHandle_new(<<"a.txt">>))
    /\ read_buffer = << >>
    /\ pc = "idle"
    /\ call = Call("open", 2, 0, O_RDONLY, 0, 0)
    /\ bo = 0
    /\ replies = << ReplyOpened(2) >>
    /\ balance = [i \in Inos |-> IF i = 2 THEN 1 ELSE 0]
    /\ desc = [i \in Inos |-> IF i = 2 THEN [created |-> 1, closed |-> 0] ELSE NoDesc]
    /\ crashed = FALSE
    /\ rd = NoSession
    /\ scan = NoScan
    /\ snap = NoSnap

NextRead ==
    \/ \E fh \in {2, 4}, offset \in 0..(MaxLen + 1), size \in 0..MaxSize :
          ReadCall(fh, offset, size)
    \/ \E ret \in 1..MaxSize : ReadAtOk(ret)
    \/ ReadAtEof
    \/ \E kind \in ErrorKinds : ReadAtErr(kind)
    \/ ReadReply

SpecRead == InitRead /\ [][NextRead]_vars

(***************************************************************************)
(* CacheFs::readdir                                                        *)
(***************************************************************************)
\* one ReplyDirectory::add(ino, offset, kind, name)
DirEntry(ino, offset, kind, name) ==
    [ino |-> ino, offset |-> offset, kind |-> kind, name |-> name]

\* line 554: the number of children skipped
ChildSkipOneLess(offset) == IF offset <= 1 THEN 0 ELSE offset - 1
ChildSkip(offset) == IF offset <= 1 THEN 0 ELSE offset - 2

\* line 565: the next-offset sent with the child of (0-based) index i
ChildNextOffsetOffByOne(i) == i + 2
ChildNextOffset(i) == i + 3

\* lines 539-573: the entries readdir(ino, offset) offers to the reply
\* buffer, in order, were the buffer never full
ReaddirOffers(dir, offset) ==
    LET n == Len(dir.children)
        first == ChildSkip(offset) + 1
        kids == [k \in 1..(IF first > n THEN 0 ELSE n - first + 1) |->
                   LET i == first + k - 2   \* 0-based index in children.iter()
                       c == dir.children[i + 1] IN
                   DirEntry(c[2], ChildNextOffset(i),
                            IF c[2] \in DOMAIN tree THEN tree[c[2]].attr.kind ELSE "missing",
                            c[1])] IN
    (IF offset = 0 THEN << DirEntry(dir.attr.ino, 1, "Directory", ".") >> ELSE << >>)
    \o (IF offset <= 1 THEN << DirEntry(dir.parent, 2, "Directory", "..") >> ELSE << >>)
    \o kids

\* the reply of readdir(ino, offset) into a buffer that takes cap entries:
\* add returns true for the first entry that does not fit, and the call ends
\* there (lines 547, 551, 571); a child missing from the tree ends it with
\* EIO (line 561)
ReaddirReply(ino, offset, cap) ==
    IF TreeFolder(ino) = None THEN ReplyError("EIO")
    ELSE LET offers == ReaddirOffers(Unwrap(TreeFolder(ino)), offset)
             tried == SubSeq(offers, 1, IF cap + 1 < Len(offers) THEN cap + 1 ELSE Len(offers))
             taken == SubSeq(offers, 1, IF cap < Len(offers) THEN cap ELSE Len(offers)) IN
         IF \E k \in 1..Len(tried) : tried[k].kind = "missing"
         THEN ReplyError("EIO")
         ELSE Reply("directory", "", 0, taken)

\* the kernel starts enumerating a directory: the first readdir is at offset 0
RdStart(ino) ==
    /\ pc = "idle"
    /\ rd' = [ino |-> ino, offset |-> 0, entries |-> << >>, calls |-> 0,
              cut |-> FALSE, done |-> FALSE]
    /\ call' = Call("opendir", ino, ino, 0, 0, 0)
    /\ replies' = << IF ino \in DOMAIN tree THEN ReplyOpened(ino) ELSE ReplyError("ENOENT") >>
    /\ UNCHANGED << tree, remote, cache_files, cache_dirs, tmp_file, opened_files,
                    read_buffer, pc, bo, balance, desc, crashed, scan, snap >>

\* readdir(ino, fh, offset) with a reply buffer that takes cap entries; the
\* kernel continues from the next-offset of the last entry it received, and
\* stops when a call returns no entry (or an error)
Readdir(cap) ==
    /\ pc = "idle"
    /\ rd.ino # 0
    /\ ~rd.done
    /\ call' = Call("readdir", rd.ino, rd.ino, 0, rd.offset, cap)
    /\ LET r == ReaddirReply(rd.ino, rd.offset, cap) IN
       /\ replies' = << r >>
       /\ rd' = IF r.kind = "error" \/ r.data = << >>
                THEN [rd EXCEPT !.done = TRUE, !.calls = @ + 1]
                ELSE [rd EXCEPT !.entries = @ \o r.data,
                                !.offset = r.data[Len(r.data)].offset,
                                !.calls = @ + 1,
                                !.cut = @ \/ Len(r.data) = cap]
    /\ UNCHANGED << tree, remote, cache_files, cache_dirs, tmp_file, opened_files,
                    read_buffer, pc, bo, balance, desc, crashed, scan, snap >>

\* SpecReaddir: a mounted filesystem over one of the trees, nothing opened
InitReaddir ==
    /\ tree \in DirTrees
    /\ remote = << >>
    /\ cache_files = << >>
    /\ cache_dirs = {}
    /\ tmp_file = None
    /\ opened_files = << >>
    /\ read_buffer = << >>
    /\ pc = "idle"
    /\ call = NoCall
    /\ bo = 0
    /\ replies = << >>
    /\ balance = [i \in Inos |-> 0]
    /\ desc = [i \in Inos |-> NoDesc]
    /\ crashed = FALSE
    /\ rd = NoSession
    /\ scan = NoScan
    /\ snap = NoSnap

NextReaddir ==
    \/ \E ino \in 1..(MaxChildren + 2) : RdStart(ino)
    \/ \E cap \in 1..MaxCap : Readdir(cap)

SpecReaddir == InitReaddir /\ [][NextReaddir]_vars

(***************************************************************************)
(* Claims about read (SpecRead)                                            *)
(***************************************************************************)
\* a read call has completed with a byte string (no I/O error)
ReadCompleted ==
    /\ pc = "idle"
    /\ call.op = "read"
    /\ Len(replies) = 1
    /\ replies[1].kind = "data"

\* C1: a read completing with bytes B has |B| = size or the file ends at
\* offset + |B|; in particular a file shorter than offset + size yields a
\* reply shorter than size. Stated for the requests that start inside the
\* file or at its end (offset <= length), the ones the kernel issues.
C1_ShortReadMeansEof ==
    (ReadCompleted /\ call.offset <= Len(HandleBytes(call.fh))) =>
        LET B == replies[1].data
            L == Len(HandleBytes(call.fh)) IN
        /\ Len(B) = call.size \/ L = call.offset + Len(B)
        /\ L < call.offset + call.size => Len(B) < call.size

\* C2: the bytes replied by read are the file's bytes at
\* [offset, offset + |B|), in file order, none repeated or skipped, however
\* the positional reads split the request.
C2_ReplyIsFileSlice ==
    ReadCompleted =>
        LET B == replies[1].data
            file == HandleBytes(call.fh) IN
        \A i \in 1..Len(B) :
            /\ call.offset + i <= Len(file)
            /\ B[i] = file[call.offset + i]

(***************************************************************************)
(* Claims about open's populate sequence (Spec)                            *)
(***************************************************************************)
\* an open call has replied success
OpenSucceeded ==
    /\ pc = "idle"
    /\ call.op = "open"
    /\ replies = << ReplyOpened(call.ino) >>

\* C3: in every reachable state, inside the populate sequence and after any
\* crash or failed step, the cache path of a regular-file inode is absent or
\* holds the complete content of the remote file; a partial copy is only
\* ever at tmp.file.
C3_CachePathAbsentOrComplete ==
    \A i \in RegularInos :
        EntryPath(i) \in DOMAIN cache_files =>
            cache_files[EntryPath(i)] = remote[EntryPath(i)]

\* a crash left a partial copy of dir/b.bin at tmp.file while a.txt is
\* cached and dir/b.bin is not
C3_Witness ==
    /\ crashed
    /\ IsSome(tmp_file)
    /\ Len(Unwrap(tmp_file)) < Len(remote[<<"dir", "b.bin">>])
    /\ <<"a.txt">> \in DOMAIN cache_files
    /\ <<"dir", "b.bin">> \notin DOMAIN cache_files

\* C4: when open of a regular-file inode replies success the cache file
\* exists with the bytes of the remote file, and every handle in the
\* HandleTable (all a read can use) names such an established cache file.
C4_OpenSuccessEstablishesCache ==
    /\ (OpenSucceeded /\ call.ino \in RegularInos) =>
          /\ EntryPath(call.ino) \in DOMAIN cache_files
          /\ cache_files[EntryPath(call.ino)] = remote[EntryPath(call.ino)]
    /\ \A i \in DOMAIN opened_files :
          /\ opened_files[i].file \in DOMAIN cache_files
          /\ cache_files[opened_files[i].file] = remote[opened_files[i].file]

\* open(dir/b.bin) has just populated the cache (two bytes copied) and
\* replied success
C4_Witness ==
    /\ OpenSucceeded
    /\ call.ino = 4
    /\ opened_files[4].count = 1
    /\ cache_files[<<"dir", "b.bin">>] = OtherBytes(MaxLen)
    /\ <<"dir">> \in cache_dirs

(***************************************************************************)
(* Claims about the HandleTable (Spec)                                     *)
(***************************************************************************)
\* C5: from no entry for ino, k opens followed by k releases create one
\* cache descriptor (at the first open) and close one (at the k-th
\* release): while opens outnumber releases one descriptor has been created
\* and none closed, and when they balance every created one is closed.
C5_OneDescriptorPerEpisode ==
    \A i \in Inos :
        /\ balance[i] >= 0
        /\ balance[i] > 0 => desc[i] = [created |-> 1, closed |-> 0]
        /\ balance[i] = 0 => desc[i] \in {NoDesc, [created |-> 1, closed |-> 1]}

\* after open, open, release of a.txt the descriptor is still the first one
C5_Witness ==
    /\ pc = "idle"
    /\ call.op = "release"
    /\ call.fh = 2
    /\ replies = << ReplyOk >>
    /\ 2 \in DOMAIN opened_files
    /\ desc[2] = [created |-> 1, closed |-> 0]

\* C6: for every inode the HandleTable holds an entry exactly when
\* successful opens minus successful releases is positive, and the entry's
\* count is that difference.
C6_CountIsOpensMinusReleases ==
    \A i \in Inos :
        /\ i \in DOMAIN opened_files <=> balance[i] > 0
        /\ i \in DOMAIN opened_files => opened_files[i].count = balance[i]

\* two opens of a.txt give count 2, while dir/b.bin was opened and released
C6_Witness ==
    /\ pc = "idle"
    /\ call.op = "release"
    /\ call.fh = 4
    /\ replies = << ReplyOk >>
    /\ 4 \notin DOMAIN opened_files
    /\ 2 \in DOMAIN opened_files
    /\ opened_files[2].count = 2

\* C7: every open call (of an inode of the tree) whose flags set O_EXCL,
\* O_CREAT, O_APPEND or O_TRUNC with valid access-mode bits replies EIO and
\* leaves the HandleTable unchanged, whatever the HandleTable holds.
C7_WrongFlagsReplyEIO ==
    [][ ( /\ pc = "idle" /\ pc' = "idle"
          /\ call'.op = "open"
          /\ call'.ino \in DOMAIN tree
          /\ AccModeOk(call'.flags)
          /\ WrongFlags(call'.flags) )
        => ( /\ replies' = << ReplyError("EIO") >>
             /\ opened_files' = opened_files ) ]_vars

\* C8: every open call (of an inode of the tree) whose access-mode bits are
\* not O_RDONLY, O_WRONLY or O_RDWR replies EINVAL and changes neither the
\* HandleTable nor the cache, whatever the HandleTable holds.
C8_BadAccessModeRepliesEINVAL ==
    [][ ( /\ pc = "idle" /\ pc' = "idle"
          /\ call'.op = "open"
          /\ call'.ino \in DOMAIN tree
          /\ ~AccModeOk(call'.flags) )
        => ( /\ replies' = << ReplyError("EINVAL") >>
             /\ opened_files' = opened_files
             /\ UNCHANGED << cache_files, cache_dirs, tmp_file >> ) ]_vars

\* C9: whenever no open call is in progress and no crash has happened,
\* tmp.file does not exist.
C9_NoTempFileBetweenCalls ==
    (pc = "idle" /\ ~crashed) => tmp_file = None

(***************************************************************************)
(* Claims about readdir (SpecReaddir)                                      *)
(***************************************************************************)
\* '.', '..' and the children of a directory, with next-offsets 1, 2, 3, ...
Listing(ino) ==
    LET dir == tree[ino] IN
    [k \in 1..(Len(dir.children) + 2) |->
        IF k = 1 THEN DirEntry(ino, 1, "Directory", ".")
        ELSE IF k = 2 THEN DirEntry(dir.parent, 2, "Directory", "..")
        ELSE DirEntry(dir.children[k - 2][2], k,
                      tree[dir.children[k - 2][2]].attr.kind, dir.children[k - 2][1])]

\* C10: for every directory and every sequence of buffer capacities,
\* readdir from offset 0, re-issued at the next-offset of the last accepted
\* entry until a call returns nothing, yields '.', '..' and every child
\* once, in the order of one unbounded call, with next-offsets 1, 2, 3, ...
C10_ReaddirEnumeratesOnce ==
    (rd.ino \in DOMAIN tree /\ tree[rd.ino].attr.kind = "Directory") =>
        LET all == Listing(rd.ino)
            got == rd.entries IN
        /\ Len(got) <= Len(all)
        /\ got = SubSeq(all, 1, Len(got))
        /\ rd.offset = Len(got)
        /\ rd.done =>
              /\ got = all
              /\ got = ReaddirReply(rd.ino, 0, Len(all)).data

\* a directory of MaxChildren children was enumerated to the end in calls
\* whose buffer filled up
C10_Witness ==
    /\ rd.done
    /\ rd.cut
    /\ rd.calls >= 3
    /\ rd.ino = 1
    /\ Len(rd.entries) = MaxChildren + 2

\* C11: in every directory d, readdir(d, offset) produces first '.' (inode d,
\* Directory) at offset 0, '..' (inode parent(d), Directory) at offset 1 and
\* the child of index 0 of the children iteration at offset 2; on an inode
\* that is not a directory it replies EIO and hands over no entry.
C11_ReaddirFirstEntry ==
    (pc = "idle" /\ call.op = "readdir") =>
        LET r == replies[1] IN
        IF call.ino \notin DOMAIN tree \/ tree[call.ino].attr.kind # "Directory"
        THEN replies = << ReplyError("EIO") >> /\ r.data = << >>
        ELSE LET d == tree[call.ino] IN
             /\ Len(replies) = 1
             /\ r.kind = "directory"
             /\ call.offset = 0 =>
                   /\ Len(r.data) >= 1
                   /\ r.data[1].name = "." /\ r.data[1].ino = call.ino
                   /\ r.data[1].kind = "Directory"
             /\ call.offset = 1 =>
                   /\ Len(r.data) >= 1
                   /\ r.data[1].name = ".." /\ r.data[1].ino = d.parent
                   /\ r.data[1].kind = "Directory"
             /\ (call.offset = 2 /\ Len(d.children) >= 1) =>
                   /\ Len(r.data) >= 1
                   /\ r.data[1].name = d.children[1][1]
                   /\ r.data[1].ino = d.children[1][2]
                   /\ r.data[1].kind = tree[d.children[1][2]].attr.kind

\* a readdir at offset 2 of a directory that has children was answered
C11_Witness ==
    /\ pc = "idle" /\ call.op = "readdir" /\ call.offset = 2
    /\ call.ino \in DOMAIN tree /\ tree[call.ino].attr.kind = "Directory"
    /\ Len(tree[call.ino].children) >= 2
    /\ Len(replies) = 1 /\ replies[1].kind = "directory" /\ Len(replies[1].data) >= 1

(***************************************************************************)
(* The tree queries of the dispatcher: lookup, getattr, opendir,           *)
(* releasedir, readlink, and readdir at any offset                         *)
(***************************************************************************)
\* const TTL: Duration::from_secs(120)
TTL == 120

\* ScenarioTree with a symlink dir/lnk -> b.bin
LinkTree ==
    [ScenarioTree EXCEPT ![3].children = Append(@, <<"lnk", 5>>)]
    @@ (5 :> FileInfo(5, 3, <<"dir", "lnk">>, "Symlink", << >>, "b.bin"))

\* HashMap::get on a children map
ChildrenGet(children, name) ==
    IF \E k \in 1..Len(children) : children[k][1] = name
    THEN Some(children[CHOOSE k \in 1..Len(children) : children[k][1] = name][2])
    ELSE None

\* FileTree::getattr
TreeGetattr(ino) == IF ino \in DOMAIN tree THEN Some(tree[ino].attr) ELSE None

\* FileTree::symlink
TreeSymlink(ino) ==
    IF ino \in DOMAIN tree /\ tree[ino].attr.kind = "Symlink"
    THEN Some(tree[ino]) ELSE None

\* FileTree::lookup: folder(parent)?, children.get(child)?, inode_to_path.get(child)?
TreeLookupParentAttr(parent, child) ==
    IF TreeFolder(parent) = None THEN None
    ELSE IF ChildrenGet(Unwrap(TreeFolder(parent)).children, child) = None THEN None
    ELSE Some(tree[parent].attr)
TreeLookup(parent, child) ==
    IF TreeFolder(parent) = None THEN None
    ELSE LET c == ChildrenGet(Unwrap(TreeFolder(parent)).children, child) IN
         IF c = None THEN None
         ELSE IF Unwrap(c) \notin DOMAIN tree THEN None
         ELSE Some(tree[Unwrap(c)].attr)

\* reply.entry(ttl, attr, generation) and reply.attr(ttl, attr)
ReplyEntry(ttl, attr, generation) == Reply("entry", "", 0, << ttl, attr, generation >>)
ReplyAttr(ttl, attr) == Reply("attr", "", 0, << ttl, attr >>)

\* names the kernel looks up: the children of the tree and one nobody has
LookupNames == << "a.txt", "dir", "b.bin", "lnk", "nobody" >>

\* CacheFs::lookup of the n-th of LookupNames; call.size records n
Lookup(parent, n) ==
    /\ pc = "idle"
    /\ call' = Call("lookup", parent, 0, 0, 0, n)
    /\ replies' = << IF TreeLookup(parent, LookupNames[n]) = None THEN ReplyError("ENOENT")
                     ELSE ReplyEntry(TTL, Unwrap(TreeLookup(parent, LookupNames[n])), 1) >>
    /\ UNCHANGED << tree, remote, cache_files, cache_dirs, tmp_file, opened_files,
                    read_buffer, pc, bo, balance, desc, crashed, rd, scan, snap >>

\* CacheFs::getattr
Getattr(ino) ==
    /\ pc = "idle"
    /\ call' = Call("getattr", ino, 0, 0, 0, 0)
    /\ replies' = << IF TreeGetattr(ino) = None THEN ReplyError("ENOENT")
                     ELSE ReplyAttr(TTL, Unwrap(TreeGetattr(ino))) >>
    /\ UNCHANGED << tree, remote, cache_files, cache_dirs, tmp_file, opened_files,
                    read_buffer, pc, bo, balance, desc, crashed, rd, scan, snap >>

\* opendir, lines 518-521: the reply
OpendirReplyDirsOnly(ino) ==
    IF TreeFolder(ino) = None THEN ReplyError("ENOENT")
    ELSE ReplyOpened(Unwrap(TreeGetattr(ino)).ino)
OpendirReply(ino) ==
    IF TreeGetattr(ino) = None THEN ReplyError("ENOENT")
    ELSE ReplyOpened(Unwrap(TreeGetattr(ino)).ino)

\* CacheFs::opendir
Opendir(ino) ==
    /\ pc = "idle"
    /\ call' = Call("opendir", ino, 0, 0, 0, 0)
    /\ replies' = << OpendirReply(ino) >>
    /\ UNCHANGED << tree, remote, cache_files, cache_dirs, tmp_file, opened_files,
                    read_buffer, pc, bo, balance, desc, crashed, rd, scan, snap >>

\* releasedir, lines 580-583: the reply
ReleasedirReply(ino) == IF TreeFile(ino) = None THEN ReplyError("EIO") ELSE ReplyOk

\* CacheFs::releasedir
Releasedir(ino) ==
    /\ pc = "idle"
    /\ call' = Call("releasedir", ino, ino, 0, 0, 0)
    /\ replies' = << ReleasedirReply(ino) >>
    /\ UNCHANGED << tree, remote, cache_files, cache_dirs, tmp_file, opened_files,
                    read_buffer, pc, bo, balance, desc, crashed, rd, scan, snap >>

\* CacheFs::readlink; the link target is handed over as one opaque string
Readlink(ino) ==
    /\ pc = "idle"
    /\ call' = Call("readlink", ino, 0, 0, 0, 0)
    /\ replies' = << IF TreeSymlink(ino) = None THEN ReplyError("ENOENT")
                     ELSE ReplyData(<< Unwrap(TreeSymlink(ino)).link >>) >>
    /\ UNCHANGED << tree, remote, cache_files, cache_dirs, tmp_file, opened_files,
                    read_buffer, pc, bo, balance, desc, crashed, rd, scan, snap >>

\* readdir: the replies sent by one call; every return of lines 534-574
\* sends one (error at 535 and 561, ok at 547, 551 and 574)
ReaddirRepliesNoneWhenFull(ino, offset, cap) ==
    IF /\ TreeFolder(ino) # None
       /\ Len(ReaddirOffers(Unwrap(TreeFolder(ino)), offset)) > cap
    THEN << >>
    ELSE << ReaddirReply(ino, offset, cap) >>
ReaddirReplies(ino, offset, cap) == << ReaddirReply(ino, offset, cap) >>

\* CacheFs::readdir at an offset of the kernel's choosing
ReaddirAt(ino, offset, cap) ==
    /\ pc = "idle"
    /\ call' = Call("readdir", ino, ino, 0, offset, cap)
    /\ replies' = ReaddirReplies(ino, offset, cap)
    /\ UNCHANGED << tree, remote, cache_files, cache_dirs, tmp_file, opened_files,
                    read_buffer, pc, bo, balance, desc, crashed, rd, scan, snap >>

\* the requests the kernel sends in the dispatcher specification
DispatchInos == DOMAIN LinkTree \cup {AbsentIno}
DispatchOpenInos == {2, AbsentIno}
DispatchFlags == { O_RDONLY, O_ACCMODE, O_WRONLY + O_CREAT }

InitDispatch ==
    /\ tree = LinkTree
    /\ remote = (<<"a.txt">> :> Bytes(MaxLen)) @@ (<<"dir", "b.bin">> :> OtherBytes(1))
    /\ cache_files = << >>
    /\ cache_dirs = {}
    /\ tmp_file = None
    /\ opened_files = << >>
    /\ read_buffer = << >>
    /\ pc = "idle"
    /\ call = NoCall
    /\ bo = 0
    /\ replies = << >>
    /\ balance = [i \in Inos |-> 0]
    /\ desc = [i \in Inos |-> NoDesc]
    /\ crashed = FALSE
    /\ rd = NoSession
    /\ scan = NoScan
    /\ snap = NoSnap

NextDispatch ==
    \/ \E parent \in DispatchInos, n \in 1..Len(LookupNames) : Lookup(parent, n)
    \/ \E ino \in DispatchInos : Getattr(ino)
    \/ \E ino \in DispatchOpenInos, fl \in DispatchFlags : OpenCall(ino, fl)
    \/ OpenMkdirOk
    \/ \E n \in 0..1 : OpenMkdirErr(n)
    \/ OpenCopyBegin
    \/ OpenCopyErr
    \/ \E n \in 1..MaxLen : OpenCopyData(n)
    \/ OpenCopyAbort
    \/ OpenCopyEnd
    \/ OpenRenameOk
    \/ OpenRenameErr
    \/ OpenOpenOk
    \/ \E kind \in ErrorKinds : OpenOpenErr(kind)
    \/ \E fh \in DispatchOpenInos, offset \in {0, MaxLen}, size \in 1..MaxLen :
          ReadCall(fh, offset, size)
    \/ \E ret \in 1..MaxLen : ReadAtOk(ret)
    \/ ReadAtEof
    \/ \E kind \in ErrorKinds : ReadAtErr(kind)
    \/ ReadReply
    \/ \E fh \in DispatchOpenInos : Release(fh)
    \/ \E ino \in DispatchInos : Opendir(ino)
    \/ \E ino \in DispatchInos, offset \in 0..3, cap \in 1..MaxCap : ReaddirAt(ino, offset, cap)
    \/ \E ino \in DispatchInos : Releasedir(ino)
    \/ \E ino \in DispatchInos : Readlink(ino)

SpecDispatch == InitDispatch /\ [][NextDispatch]_vars

(***************************************************************************)
(* Handles of two files: opens that succeed, reads and releases, also on   *)
(* handles the HandleTable does not hold                                   *)
(***************************************************************************)
HandleInos == {2, 4, AbsentIno}

NextHandles ==
    \/ \E ino \in HandleInos : OpenCall(ino, O_RDONLY)
    \/ OpenMkdirOk
    \/ OpenCopyBegin
    \/ \E n \in 1..MaxLen : OpenCopyData(n)
    \/ OpenCopyEnd
    \/ OpenRenameOk
    \/ OpenOpenOk
    \/ \E fh \in HandleInos, offset \in {0, MaxLen}, size \in 1..MaxLen :
          ReadCall(fh, offset, size)
    \/ \E ret \in 1..MaxLen : ReadAtOk(ret)
    \/ ReadAtEof
    \/ ReadReply
    \/ \E fh \in HandleInos : Release(fh)

SpecHandles == InitDispatch /\ [][NextHandles]_vars

\* what no tree query and no failed handle lookup may touch: the tree, the
\* remote, the cache directory, the HandleTable and the read buffer
StateVars == << tree, remote, cache_files, cache_dirs, tmp_file, opened_files, read_buffer >>

\* C12: lookup(parent, name) replies ENOENT exactly when parent is absent, is
\* not a directory or has no child called name; otherwise it replies the attr
\* of the inode children(parent)[name], whose recorded parent is parent, with
\* TTL 120 and generation 1; and it changes no state.
C12_LookupReply ==
    [][ (pc = "idle" /\ call'.op = "lookup") =>
          LET parent == call'.ino
              name == LookupNames[call'.size]
              isdir == parent \in DOMAIN tree /\ tree[parent].attr.kind = "Directory"
              hits == IF isdir
                      THEN { k \in 1..Len(tree[parent].children) :
                               tree[parent].children[k][1] = name }
                      ELSE {} IN
          /\ UNCHANGED StateVars
          /\ Len(replies') = 1
          /\ (replies'[1] = ReplyError("ENOENT")) <=> (hits = {})
          /\ \A k \in hits :
               LET c == tree[parent].children[k][2] IN
               /\ c \in DOMAIN tree
               /\ tree[c].parent = parent
               /\ replies'[1] = Reply("entry", "", 0, << 120, tree[c].attr, 1 >>)
      ]_vars

\* a lookup found dir/b.bin
C12_Witness ==
    /\ pc = "idle" /\ call.op = "lookup" /\ call.ino = 3
    /\ LookupNames[call.size] = "b.bin"
    /\ replies = << ReplyEntry(TTL, tree[4].attr, 1) >>

\* C17: opendir(ino) succeeds iff ino is in the tree, whatever its kind, and
\* then replies handle = ino with open-flags 0; releasedir replies ok iff ino
\* is in the tree and EIO otherwise; neither changes the HandleTable, the
\* cache directory or the tree.
C17_OpendirReleasedir ==
    [][ /\ (pc = "idle" /\ call'.op = "opendir") =>
             /\ UNCHANGED StateVars
             /\ Len(replies') = 1
             /\ IF call'.ino \in DOMAIN tree
                THEN replies'[1] = ReplyOpenedFlags(call'.ino, 0)
                ELSE replies'[1].kind = "error"
        /\ (pc = "idle" /\ call'.op = "releasedir") =>
             /\ UNCHANGED StateVars
             /\ replies' = << IF call'.ino \in DOMAIN tree THEN ReplyOk
                              ELSE ReplyError("EIO") >>
      ]_vars

\* opendir of a regular file succeeded while a handle was open
C17_Witness ==
    /\ pc = "idle" /\ call.op = "opendir" /\ call.ino = 2
    /\ replies = << ReplyOpenedFlags(2, 0) >>
    /\ 2 \in DOMAIN opened_files

\* C18: read and release on a handle with no HandleTable entry reply EIO and
\* leave the HandleTable unchanged; no release drives a count below one (an
\* entry is removed at zero) nor touches the entry of another inode.
C18_UnknownHandle ==
    [][ /\ (pc = "idle" /\ call'.op \in {"read", "release"}
               /\ call'.fh \notin DOMAIN opened_files) =>
             /\ replies' = << ReplyError("EIO") >>
             /\ pc' = "idle"
             /\ UNCHANGED StateVars
        /\ (pc = "idle" /\ call'.op = "release") =>
             \A i \in DOMAIN opened_files \ {call'.fh} :
                 i \in DOMAIN opened_files' /\ opened_files'[i] = opened_files[i]
        /\ \A i \in DOMAIN opened_files' : opened_files'[i].count >= 1
      ]_vars

\* a.txt was opened and released, then released once more, while dir/b.bin
\* stays open
C18_Witness ==
    /\ pc = "idle" /\ call.op = "release" /\ call.fh = 2
    /\ desc[2].closed >= 1 /\ 2 \notin DOMAIN opened_files
    /\ replies = << ReplyError("EIO") >>
    /\ 4 \in DOMAIN opened_files

\* C19: every dispatcher operation sends exactly one reply on every path: none
\* while the operation runs, one when it has returned.
C19_ExactlyOneReply ==
    /\ pc # "idle" => Len(replies) = 0
    /\ (pc = "idle" /\ call.op # "none") => Len(replies) = 1

\* a readdir stopped by a full reply buffer
C19_Witness ==
    /\ pc = "idle" /\ call.op = "readdir" /\ call.offset = 0
    /\ call.ino = 3 /\ call.size = 1
    /\ Len(replies) = 1 /\ replies[1].kind = "directory"
    /\ Len(replies[1].data) = 1

(***************************************************************************)
(* FileTree::build: the scan of the remote directory                       *)
(***************************************************************************)
\* a file name that is not valid UTF-8 (the byte E9 alone)
BadName == "caf<E9>"

\* what read_dir and DirEntry::metadata find under remote_dir, by directory:
\* the entries in listing order, each with the file type lstat reports
RemoteEntry(name, kind) == [name |-> name, kind |-> kind]
ScanRemote ==
    (<< >> :> << RemoteEntry("a.txt", "RegularFile"), RemoteEntry("dir", "Directory"),
                 RemoteEntry("sock", "Socket"), RemoteEntry("lnk", "Symlink") >>)
    @@ (<<"dir">> :> << RemoteEntry("b.bin", "RegularFile"), RemoteEntry("sub", "Directory"),
                        RemoteEntry(BadName, "RegularFile") >>)
    @@ (<<"dir", "sub">> :> << RemoteEntry("c", "RegularFile") >>)

\* what read_link returns for every symlink of ScanRemote
LinkTarget == "target"

\* ft2ft: the kinds meta2attr accepts
SupportedKinds == {"Symlink", "Directory", "RegularFile"}

\* how the scan of one directory entry ends: installed; skipped because
\* metadata() or meta2attr failed; skipped because read_link failed
EntryOutcomes == {"ok", "meta_err", "link_err"}

\* process_dir, line 213: children.insert(name, ino)
InsertChildNowhere(children, name, ino) == children
InsertChild(children, name, ino) ==
    IF \E k \in 1..Len(children) : children[k][1] = name
    THEN [k \in 1..Len(children) |->
            IF children[k][1] = name THEN << name, ino >> ELSE children[k]]
    ELSE Append(children, << name, ino >>)

\* process_dir: ino_counter after an entry was skipped (lines 183, 197: no
\* increment is reached)
AfterSkipIncremented(ino_counter) == ino_counter + 1
AfterSkip(ino_counter) == ino_counter

\* build, lines 139-149: the root is installed as inode 1
BuildRoot ==
    /\ snap.phase = "build"
    /\ scan.phase = "none"
    /\ tree' = MapInsert(<< >>, 1, FileInfo(1, 0, << >>, "Directory", << >>, ""))
    /\ scan' = [phase |-> "dirs", ino_counter |-> 2, dirs |-> << 1 >>, all_dirs |-> << >>,
                cur |-> 0, list |-> << >>]
    /\ UNCHANGED << remote, cache_files, cache_dirs, tmp_file, opened_files, read_buffer,
                    pc, call, bo, replies, balance, desc, crashed, rd, snap >>

\* build, line 144: symlink_metadata(root_path) fails and build panics
BuildRootPanic ==
    /\ snap.phase = "build"
    /\ scan.phase = "none"
    /\ snap' = [snap EXCEPT !.phase = "panicked"]
    /\ UNCHANGED << tree, remote, cache_files, cache_dirs, tmp_file, opened_files,
                    read_buffer, pc, call, bo, replies, balance, desc, crashed, rd, scan >>

\* process_dir, lines 171-182: the next directory of dirs is listed; when
\* read_dir fails it is left without children
ProcessDirBegin(listed) ==
    /\ scan.phase = "dirs"
    /\ scan.dirs # << >>
    /\ scan' = [scan EXCEPT !.phase = "entries",
                            !.cur = Head(scan.dirs),
                            !.dirs = Tail(scan.dirs),
                            !.list = IF listed THEN ScanRemote[tree[Head(scan.dirs)].path]
                                     ELSE << >>]
    /\ UNCHANGED << tree, remote, cache_files, cache_dirs, tmp_file, opened_files,
                    read_buffer, pc, call, bo, replies, balance, desc, crashed, rd, snap >>

\* process_dir, lines 182-220: one iteration of `for de in x.flatten()`
ProcessEntry(outcome) ==
    /\ scan.phase = "entries"
    /\ scan.list # << >>
    /\ LET de == Head(scan.list)
           ino == scan.cur
           path == Append(tree[ino].path, de.name)
           skipped == \/ outcome = "meta_err"
                      \/ de.kind \notin SupportedKinds
                      \/ de.kind = "Symlink" /\ outcome = "link_err"
           child == FileInfo(scan.ino_counter, ino, path, de.kind, << >>,
                             IF de.kind = "Symlink" THEN LinkTarget ELSE "") IN
       /\ outcome = "link_err" => de.kind = "Symlink"
       /\ IF skipped
          THEN /\ scan' = [scan EXCEPT !.list = Tail(scan.list),
                                       !.ino_counter = AfterSkip(scan.ino_counter)]
               /\ tree' = tree
          ELSE /\ scan' = [scan EXCEPT !.list = Tail(scan.list),
                                       !.ino_counter = scan.ino_counter + 1,
                                       !.all_dirs = IF de.kind = "Directory"
                                                    THEN Append(scan.all_dirs, child.attr.ino)
                                                    ELSE scan.all_dirs]
               /\ tree' = MapInsert(
                     [tree EXCEPT ![ino].children = InsertChild(@, de.name, child.attr.ino)],
                     child.attr.ino, child)
    /\ UNCHANGED << remote, cache_files, cache_dirs, tmp_file, opened_files, read_buffer,
                    pc, call, bo, replies, balance, desc, crashed, rd, snap >>

\* process_dir returns (line 222)
ProcessDirEnd ==
    /\ scan.phase = "entries"
    /\ scan.list = << >>
    /\ scan' = [scan EXCEPT !.phase = "dirs", !.cur = 0]
    /\ UNCHANGED << tree, remote, cache_files, cache_dirs, tmp_file, opened_files,
                    read_buffer, pc, call, bo, replies, balance, desc, crashed, rd, snap >>

\* build, line 157: dirs = all_dirs, and the while loop goes on
BuildNextLevel ==
    /\ scan.phase = "dirs"
    /\ scan.dirs = << >>
    /\ scan.all_dirs # << >>
    /\ scan' = [scan EXCEPT !.dirs = scan.all_dirs, !.all_dirs = << >>]
    /\ UNCHANGED << tree, remote, cache_files, cache_dirs, tmp_file, opened_files,
                    read_buffer, pc, call, bo, replies, balance, desc, crashed, rd, snap >>

\* build returns the tree (line 161); load_or_build goes on to save (line 116)
BuildDone ==
    /\ scan.phase = "dirs"
    /\ scan.dirs = << >>
    /\ scan.all_dirs = << >>
    /\ scan' = [scan EXCEPT !.phase = "done"]
    /\ snap' = [snap EXCEPT !.phase = "save"]
    /\ UNCHANGED << tree, remote, cache_files, cache_dirs, tmp_file, opened_files,
                    read_buffer, pc, call, bo, replies, balance, desc, crashed, rd >>

(***************************************************************************)
(* The snapshot: bincode over the serde derives of lines 32-84.  A token   *)
(* is one integer: a u64 / u32 field, an enum variant index, a length, or  *)
(* one whole file name (its bytes, as the index in NameTable); 0 inside a  *)
(* path string is the separator '/'.                                       *)
(***************************************************************************)
\* the byte strings that occur as file names and link targets
NameTable == << "a.txt", "dir", "sock", "lnk", "b.bin", "sub", BadName, "c", LinkTarget >>
NameCode(name) == CHOOSE i \in 1..Len(NameTable) : NameTable[i] = name

\* str::from_utf8 on a file name
IsUtf8(name) == name # BadName

\* enum FileTypeDef, in declaration order: the variant index is the position - 1
FileTypeDef == << "NamedPipe", "CharDevice", "BlockDevice", "Directory",
                  "RegularFile", "Symlink", "Socket" >>
KindCode(kind) == (CHOOSE i \in 1..Len(FileTypeDef) : FileTypeDef[i] = kind) - 1

\* enum TypeExtra, in declaration order
TypeExtraDef == << "RegularFile", "Symlink", "Directory" >>
ExtraCode(kind) == (CHOOSE i \in 1..Len(TypeExtraDef) : TypeExtraDef[i] = kind) - 1

\* the string of a PathBuf: the components joined by '/'
RECURSIVE PathStr(_)
PathStr(path) ==
    IF path = << >> THEN << >>
    ELSE IF Len(path) = 1 THEN << NameCode(path[1]) >>
    ELSE << NameCode(path[1]), 0 >> \o PathStr(Tail(path))

\* path: PathBuf is serialized as a str, which it has only when it is valid
\* UTF-8; else the serializer fails
SerializePath(path) ==
    IF \E k \in 1..Len(path) : ~IsUtf8(path[k]) THEN None
    ELSE Some(<< Len(PathStr(path)) >> \o PathStr(path))

\* OsString is serialized as the variant Unix (index 0) holding the bytes
SerializeOsString(name) == << 0, 1, NameCode(name) >>

\* HashMap<OsString, u64>: the pairs in iteration order (the length goes first)
RECURSIVE SerializeChildren(_)
SerializeChildren(children) ==
    IF children = << >> THEN << >>
    ELSE SerializeOsString(children[1][1]) \o << children[1][2] >>
         \o SerializeChildren(Tail(children))

\* type_extra: TypeExtra
SerializeExtra(info) ==
    CASE info.attr.kind = "Directory" ->
           << ExtraCode("Directory"), Len(info.children) >> \o SerializeChildren(info.children)
      [] info.attr.kind = "Symlink" ->
           << ExtraCode("Symlink") >> \o SerializeOsString(info.link)
      [] OTHER -> << ExtraCode("RegularFile") >>

\* one (key, FileInfo) pair of inode_to_path: key, parent, path, attr, type_extra
SerializeInfo(key, info) ==
    << key, info.parent >> \o Unwrap(SerializePath(info.path))
    \o << info.attr.ino, KindCode(info.attr.kind) >> \o SerializeExtra(info)

\* the pairs of inode_to_path with keys in S, by ascending key
RECURSIVE SerializeEntries(_, _)
SerializeEntries(t, S) ==
    IF S = {} THEN << >>
    ELSE LET k == CHOOSE x \in S : \A y \in S : x <= y IN
         SerializeInfo(k, t[k]) \o SerializeEntries(t, S \ {k})

\* bincode::serialize_into(file, tree): the bytes, or None for an error
Serialize(t) ==
    IF \E i \in DOMAIN t : SerializePath(t[i].path) = None THEN None
    ELSE Some(<< Cardinality(DOMAIN t) >> \o SerializeEntries(t, DOMAIN t))

\* result of one step of the decoder: the value and the bytes left
Parsed(val, rest) == [ok |-> TRUE, val |-> val, rest |-> rest]
ParseFail == [ok |-> FALSE, val |-> << >>, rest |-> << >>]

DeserializeOsString(s) ==
    IF Len(s) >= 3 /\ s[1] = 0 /\ s[2] = 1 /\ s[3] \in 1..Len(NameTable)
    THEN Parsed(NameTable[s[3]], SubSeq(s, 4, Len(s)))
    ELSE ParseFail

\* PathBuf::from(String): the components are what lies between the '/'
DeserializePath(s) ==
    IF Len(s) >= 1 /\ Len(s) >= 1 + s[1]
    THEN LET str == SubSeq(s, 2, 1 + s[1])
             comp == SelectSeq(str, LAMBDA c : c # 0) IN
         IF \A k \in 1..Len(str) : str[k] \in 0..Len(NameTable)
         THEN Parsed([k \in 1..Len(comp) |-> NameTable[comp[k]]],
                     SubSeq(s, 2 + s[1], Len(s)))
         ELSE ParseFail
    ELSE ParseFail

RECURSIVE DeserializeChildren(_, _, _)
DeserializeChildren(s, n, acc) ==
    IF n = 0 THEN Parsed(acc, s)
    ELSE LET a == DeserializeOsString(s) IN
         IF ~a.ok \/ Len(a.rest) < 1 THEN ParseFail
         ELSE DeserializeChildren(Tail(a.rest), n - 1, InsertChild(acc, a.val, a.rest[1]))

DeserializeExtra(s) ==
    IF Len(s) < 1 THEN ParseFail
    ELSE CASE s[1] = ExtraCode("RegularFile") ->
                Parsed([children |-> << >>, link |-> ""], Tail(s))
           [] s[1] = ExtraCode("Symlink") ->
                LET a == DeserializeOsString(Tail(s)) IN
                IF a.ok THEN Parsed([children |-> << >>, link |-> a.val], a.rest)
                ELSE ParseFail
           [] s[1] = ExtraCode("Directory") ->
                IF Len(s) < 2 THEN ParseFail
                ELSE LET c == DeserializeChildren(SubSeq(s, 3, Len(s)), s[2], << >>) IN
                     IF c.ok THEN Parsed([children |-> c.val, link |-> ""], c.rest)
                     ELSE ParseFail
           [] OTHER -> ParseFail

DeserializeInfo(s) ==
    IF Len(s) < 2 THEN ParseFail
    ELSE LET p == DeserializePath(SubSeq(s, 3, Len(s))) IN
         IF ~p.ok \/ Len(p.rest) < 2 THEN ParseFail
         ELSE IF p.rest[2] \notin 0..(Len(FileTypeDef) - 1) THEN ParseFail
         ELSE LET e == DeserializeExtra(SubSeq(p.rest, 3, Len(p.rest))) IN
              IF ~e.ok THEN ParseFail
              ELSE Parsed(<< s[1], FileInfo(p.rest[1], s[2], p.val, FileTypeDef[p.rest[2] + 1],
                                            e.val.children, e.val.link) >>,
                          e.rest)

RECURSIVE DeserializeEntries(_, _, _)
DeserializeEntries(s, n, acc) ==
    IF n = 0 THEN Parsed(acc, s)
    ELSE LET i == DeserializeInfo(s) IN
         IF ~i.ok THEN ParseFail
         ELSE DeserializeEntries(i.rest, n - 1, MapInsert(acc, i.val[1], i.val[2]))

\* bincode::deserialize_from(file): the tree, or None for an error
Deserialize(s) ==
    IF Len(s) < 1 THEN None
    ELSE LET r == DeserializeEntries(Tail(s), s[1], << >>) IN
         IF r.ok THEN Some(r.val) ELSE None

\* a children map in another iteration order
Reversed(children) == [k \in 1..Len(children) |-> children[Len(children) + 1 - k]]
ReversedChildren(t) == [i \in DOMAIN t |-> [t[i] EXCEPT !.children = Reversed(@)]]

\* two trees give the same answers: the same inodes, and for each the same
\* parent, path, attr, link and the same children map
ChildrenMap(children) == { children[k] : k \in 1..Len(children) }
SameAnswers(t, u) ==
    /\ DOMAIN t = DOMAIN u
    /\ \A i \in DOMAIN t :
         /\ t[i].parent = u[i].parent /\ t[i].path = u[i].path
         /\ t[i].attr = u[i].attr /\ t[i].link = u[i].link
         /\ ChildrenMap(t[i].children) = ChildrenMap(u[i].children)

(***************************************************************************)
(* FileTree::load_or_build, load and save                                  *)
(***************************************************************************)
\* a snapshot file cut off after the entry count
CorruptSnapshot == << 1 >>

\* load (lines 120-126) of a file that opens, decompresses and decodes:
\* load_or_build returns the loaded tree (line 112).  The HashMaps are
\* filled anew, so their iteration order need not be the one saved.
LoadOk(reversed) ==
    /\ snap.phase = "load"
    /\ IsSome(snap.file)
    /\ Deserialize(Unwrap(snap.file)) # None
    /\ tree' = IF reversed THEN ReversedChildren(Unwrap(Deserialize(Unwrap(snap.file))))
               ELSE Unwrap(Deserialize(Unwrap(snap.file)))
    /\ snap' = [snap EXCEPT !.phase = "returned", !.via = "load"]
    /\ UNCHANGED << remote, cache_files, cache_dirs, tmp_file, opened_files, read_buffer,
                    pc, call, bo, replies, balance, desc, crashed, rd, scan >>

\* load fails: the file is missing or does not decode; load_or_build warns
\* and goes on to build (lines 113-115)
LoadErr ==
    /\ snap.phase = "load"
    /\ IF snap.file = None THEN TRUE ELSE Deserialize(Unwrap(snap.file)) = None
    /\ snap' = [snap EXCEPT !.phase = "build"]
    /\ UNCHANGED << tree, remote, cache_files, cache_dirs, tmp_file, opened_files,
                    read_buffer, pc, call, bo, replies, balance, desc, crashed, rd, scan >>

\* save, line 129: File::create makes the file, or empties the one there
SaveCreateOk ==
    /\ snap.phase = "save"
    /\ snap' = [snap EXCEPT !.phase = "serialize", !.file = Some(<< >>)]
    /\ UNCHANGED << tree, remote, cache_files, cache_dirs, tmp_file, opened_files,
                    read_buffer, pc, call, bo, replies, balance, desc, crashed, rd, scan >>

\* save, line 129: File::create fails, and `?` makes load_or_build fail
SaveCreateErr ==
    /\ snap.phase = "save"
    /\ snap' = [snap EXCEPT !.phase = "failed", !.err = "io"]
    /\ UNCHANGED << tree, remote, cache_files, cache_dirs, tmp_file, opened_files,
                    read_buffer, pc, call, bo, replies, balance, desc, crashed, rd, scan >>

\* save, line 133: serialize_into writes the tree into the encoder, which
\* writes into the BufWriter; a serializer error makes load_or_build fail
SaveSerialize ==
    /\ snap.phase = "serialize"
    /\ snap' = IF Serialize(tree) = None
               THEN [snap EXCEPT !.phase = "failed", !.err = "serialize"]
               ELSE [snap EXCEPT !.phase = "flush", !.buffered = Unwrap(Serialize(tree))]
    /\ UNCHANGED << tree, remote, cache_files, cache_dirs, tmp_file, opened_files,
                    read_buffer, pc, call, bo, replies, balance, desc, crashed, rd, scan >>

\* save, line 133: a write of the BufWriter fails while serialize_into runs;
\* the error is returned and load_or_build fails
SaveWriteErr ==
    /\ snap.phase = "serialize"
    /\ snap' = [snap EXCEPT !.phase = "failed", !.err = "io"]
    /\ UNCHANGED << tree, remote, cache_files, cache_dirs, tmp_file, opened_files,
                    read_buffer, pc, call, bo, replies, balance, desc, crashed, rd, scan >>

\* save, line 133-134: serialize_into returns Ok and drops the writer; the
\* BufWriter (line 130), never flushed by save, flushes in its drop; save
\* returns Ok(()) and load_or_build returns the tree (line 117)
SaveDropFlushOk ==
    /\ snap.phase = "flush"
    /\ snap' = [snap EXCEPT !.phase = "returned", !.via = "build",
                            !.file = Some(snap.buffered), !.buffered = << >>,
                            !.saved = tree]
    /\ UNCHANGED << tree, remote, cache_files, cache_dirs, tmp_file, opened_files,
                    read_buffer, pc, call, bo, replies, balance, desc, crashed, rd, scan >>

\* the same, but the write of the flush in the drop fails after k bytes: a
\* drop has no way to return the error; save returns Ok(()) as before
SaveDropFlushLost(k) ==
    /\ snap.phase = "flush"
    /\ k < Len(snap.buffered)
    /\ snap' = [snap EXCEPT !.phase = "returned", !.via = "build",
                            !.file = Some(SubSeq(snap.buffered, 1, k)), !.buffered = << >>,
                            !.lost = TRUE]
    /\ UNCHANGED << tree, remote, cache_files, cache_dirs, tmp_file, opened_files,
                    read_buffer, pc, call, bo, replies, balance, desc, crashed, rd, scan >>

\* the process ends and cache-fs is started again on the same cache_dir
Remount ==
    /\ snap.phase \in {"returned", "failed", "panicked"}
    /\ tree' = << >>
    /\ scan' = NoScan
    /\ snap' = [snap EXCEPT !.phase = "load", !.via = "none", !.err = "none",
                            !.buffered = << >>, !.lost = FALSE]
    /\ UNCHANGED << remote, cache_files, cache_dirs, tmp_file, opened_files, read_buffer,
                    pc, call, bo, replies, balance, desc, crashed, rd >>

\* main calls load_or_build on a cache_dir with no snapshot or a corrupt one
InitBuild ==
    /\ tree = << >>
    /\ remote = << >>
    /\ cache_files = << >>
    /\ cache_dirs = {}
    /\ tmp_file = None
    /\ opened_files = << >>
    /\ read_buffer = << >>
    /\ pc = "idle"
    /\ call = NoCall
    /\ bo = 0
    /\ replies = << >>
    /\ balance = [i \in Inos |-> 0]
    /\ desc = [i \in Inos |-> NoDesc]
    /\ crashed = FALSE
    /\ rd = NoSession
    /\ scan = NoScan
    /\ snap \in { [NoSnap EXCEPT !.phase = "load", !.file = f] :
                    f \in {None, Some(CorruptSnapshot)} }

NextBuild ==
    \/ \E reversed \in BOOLEAN : LoadOk(reversed)
    \/ LoadErr
    \/ BuildRoot
    \/ BuildRootPanic
    \/ \E listed \in BOOLEAN : ProcessDirBegin(listed)
    \/ \E outcome \in EntryOutcomes : ProcessEntry(outcome)
    \/ ProcessDirEnd
    \/ BuildNextLevel
    \/ BuildDone
    \/ SaveCreateOk
    \/ SaveCreateErr
    \/ SaveSerialize
    \/ SaveWriteErr
    \/ SaveDropFlushOk
    \/ \E k \in 0..1 : SaveDropFlushLost(k)
    \/ Remount

SpecBuild == InitBuild /\ [][NextBuild]_vars

\* build has returned its tree (and load_or_build has not been left yet)
Built == scan.phase = "done"

\* C13: after build, whatever entries the scan skipped: every inode i > 1 has
\* a parent that is present, is a Directory and maps the last component of
\* i's path to i; and every (name, child) edge of every Directory leads to an
\* entry that exists and whose parent is that directory.
C13_ParentChildConsistent ==
    Built =>
        /\ \A i \in DOMAIN tree \ {1} :
             LET p == tree[i].parent IN
             /\ p \in DOMAIN tree
             /\ tree[p].attr.kind = "Directory"
             /\ Len(tree[i].path) >= 1
             /\ ChildrenGet(tree[p].children, tree[i].path[Len(tree[i].path)]) = Some(i)
        /\ \A d \in DOMAIN tree : \A k \in 1..Len(tree[d].children) :
             LET c == tree[d].children[k][2] IN
             /\ tree[d].attr.kind = "Directory"
             /\ c \in DOMAIN tree
             /\ tree[c].parent = d

\* a scan that skipped entries installed a file two directories down
C13_Witness ==
    /\ Built
    /\ \E i \in DOMAIN tree : tree[i].path = <<"dir", "sub", "c">>
    /\ ~ \E i \in DOMAIN tree : tree[i].path = <<"a.txt">>
    /\ ~ \E i \in DOMAIN tree : tree[i].path = <<"lnk">>

\* C14: after build the inode numbers are exactly 1..N, N the number of
\* entries installed; inode 1 is the root Directory with parent 0 and the
\* empty path; every entry's attr.ino is its key.  A skipped entry takes no
\* number.
C14_DenseInodes ==
    Built =>
        /\ DOMAIN tree = 1..Cardinality(DOMAIN tree)
        /\ scan.ino_counter = Cardinality(DOMAIN tree) + 1
        /\ tree[1].attr.kind = "Directory" /\ tree[1].parent = 0 /\ tree[1].path = << >>
        /\ \A i \in DOMAIN tree : tree[i].attr.ino = i

\* a.txt and the socket were skipped, and entries after them were installed
C14_Witness ==
    /\ Built
    /\ ~ \E i \in DOMAIN tree : tree[i].path = <<"a.txt">>
    /\ \E i \in DOMAIN tree : tree[i].path = <<"lnk">> /\ tree[i].attr.ino = 3
    /\ \E i \in DOMAIN tree : tree[i].path = <<"dir", "b.bin">>

\* C15: for every tree T that build produces, save(T) succeeds unless a file
\* operation fails, and the load of what was saved succeeds and answers every
\* query as T does.
C15_SaveLoadIdentity ==
    /\ snap.phase = "failed" => snap.err = "io"
    /\ Built =>
         /\ Serialize(tree) # None
         /\ Deserialize(Unwrap(Serialize(tree))) # None
         /\ SameAnswers(Unwrap(Deserialize(Unwrap(Serialize(tree)))), tree)
    /\ (snap.phase = "returned" /\ snap.via = "load") => SameAnswers(tree, snap.saved)

\* C16: load_or_build tries the load first; a load that succeeds returns the
\* loaded tree without a scan and without a write to the snapshot; a load that
\* fails is followed by build and save; whenever load_or_build returns a tree
\* the snapshot file holds that tree; a failed save makes it fail.
C16_LoadOrBuild ==
    [][ /\ (snap.phase = "load" /\ snap'.phase = "returned") =>
             /\ snap'.via = "load"
             /\ scan' = scan /\ snap'.file = snap.file
        /\ (snap.phase = "load" /\ snap'.phase # "load") =>
             snap'.phase \in {"returned", "build"}
        /\ (snap'.phase = "returned" /\ snap'.via = "build") => scan'.phase = "done"
        /\ snap'.phase = "returned" =>
             /\ IsSome(snap'.file)
             /\ Deserialize(Unwrap(snap'.file)) # None
             /\ SameAnswers(Unwrap(Deserialize(Unwrap(snap'.file))), tree')
        /\ snap'.phase = "failed" => snap'.via = "none"
      ]_vars

\* C20: when the rename of tmp.file to cache_path fails, open unlinks the temp
\* file (an unlink that does not itself fail leaves no tmp.file), replies EIO
\* and inserts no HandleTable entry.
C20_RenameFailureUnlinksTemp ==
    [][ (pc = "open_rename" /\ pc' = "idle" /\ replies' # << >>) =>
          /\ tmp_file' = None
          /\ replies' = << ReplyError("EIO") >>
          /\ opened_files' = opened_files
      ]_vars

(***************************************************************************)
(* The remote directory changes under the mounted filesystem               *)
(***************************************************************************)
\* contents written to a remote file later on: no byte of them is in any
\* file of the initial remote directory
ChangedBytes(k) == [i \in 1..k |-> 20 + i]
ChangedContents == { ChangedBytes(k) : k \in 0..MaxLen }

\* another process writes the remote file p (not while std::fs::copy of
\* line 417 is reading the remote)
RemoteWrite(p, c) ==
    /\ pc # "open_copy_data"
    /\ remote' = MapInsert(remote, p, c)
    /\ UNCHANGED << tree, cache_files, cache_dirs, tmp_file, opened_files, read_buffer,
                    pc, call, bo, replies, balance, desc, crashed, rd, scan, snap >>

\* another process removes the remote file p
RemoteRemove(p) ==
    /\ pc # "open_copy_data"
    /\ p \in DOMAIN remote
    /\ remote' = MapRemove(remote, p)
    /\ UNCHANGED << tree, cache_files, cache_dirs, tmp_file, opened_files, read_buffer,
                    pc, call, bo, replies, balance, desc, crashed, rd, scan, snap >>

\* the inodes opened, read and released while the remote changes
CacheInos == {2, 4}

NextCache ==
    \/ \E ino \in CacheInos : OpenCall(ino, O_RDONLY)
    \/ OpenMkdirOk
    \/ OpenCopyBegin
    \/ OpenCopyErr
    \/ \E n \in 1..MaxLen : OpenCopyData(n)
    \/ OpenCopyAbort
    \/ OpenCopyEnd
    \/ OpenRenameOk
    \/ OpenRenameErr
    \/ OpenOpenOk
    \/ \E kind \in ErrorKinds : OpenOpenErr(kind)
    \/ \E fh \in CacheInos, size \in 1..MaxLen : ReadCall(fh, 0, size)
    \/ \E ret \in 1..MaxLen : ReadAtOk(ret)
    \/ ReadAtEof
    \/ ReadReply
    \/ \E fh \in CacheInos : Release(fh)
    \/ \E c \in ChangedContents : RemoteWrite(<<"a.txt">>, c)
    \/ RemoteRemove(<<"a.txt">>)

SpecCache == InitDispatch /\ [][NextCache]_vars

\* the bytes a sequence holds
BytesOf(b) == { b[i] : i \in 1..Len(b) }

\* C21: once cache_path exists for an inode, no later step modifies or removes
\* the cached file; an open of that inode does not enter the populate
\* sequence (no directory creation, no copy from the remote, no rename, no
\* write of tmp.file on its behalf) but goes to the cache file directly; and
\* a read replies only bytes of the cached file, which are the ones captured
\* when it was populated, whatever has become of the remote file.
C21_CachedFileIsFrozen ==
    [][ /\ \A p \in DOMAIN cache_files :
             p \in DOMAIN cache_files' /\ cache_files'[p] = cache_files[p]
        /\ \A p \in DOMAIN cache_files' \ DOMAIN cache_files :
             tmp_file # None /\ cache_files'[p] = Unwrap(tmp_file)
        /\ (pc = "idle" /\ call'.op = "open" /\ remote' = remote
               /\ call'.ino \in DOMAIN tree
               /\ EntryPath(call'.ino) \in DOMAIN cache_files) =>
             /\ pc' \in {"idle", "open_open"}
             /\ UNCHANGED << cache_dirs, tmp_file >>
        /\ pc' \in {"open_mkdir", "open_copy", "open_copy_data", "open_rename"} =>
             EntryPath(call'.ino) \notin DOMAIN cache_files'
        /\ (pc = "read_loop" /\ pc' = "idle" /\ Len(replies') = 1
               /\ replies'[1].kind = "data") =>
             BytesOf(replies'[1].data) \subseteq BytesOf(cache_files[opened_files[call.fh].file])
      ]_vars

\* a.txt was cached, the remote a.txt was then rewritten or removed, and a
\* read replied the cached bytes
C21_Witness ==
    /\ pc = "idle" /\ call.op = "read" /\ call.fh = 2
    /\ <<"a.txt">> \in DOMAIN cache_files
    /\ cache_files[<<"a.txt">>] = Bytes(MaxLen)
    /\ (<<"a.txt">> \in DOMAIN remote => remote[<<"a.txt">>] = ChangedBytes(MaxLen))
    /\ Len(replies) = 1 /\ replies[1].kind = "data"
    /\ BytesOf(replies[1].data) = BytesOf(Bytes(MaxLen))

(***************************************************************************)
(* open: the error paths and the HandleTable                               *)
(***************************************************************************)
\* the positions of the dispatcher inside open (lines 403-442)
OpenPositions == {"open_mkdir", "open_copy", "open_copy_data", "open_rename", "open_open"}

\* C22: a step of open that leaves the call in progress, or that ends it
\* with an error reply (ENOENT, EINVAL, EIO, EPERM; at inode resolution, the
\* flags filter, create_dir_all, copy, rename or oo.open), leaves the
\* HandleTable as it was: no entry added, no count changed, no descriptor
\* created or closed; and in every state each HandleTable key is an inode of
\* the tree.
C22_OpenErrorKeepsHandleTable ==
    /\ [](\A ino \in DOMAIN opened_files : TreeFile(ino) # None)
    /\ [][ (/\ call'.op = "open"
            /\ \/ pc' \in OpenPositions
               \/ /\ pc' = "idle"
                  /\ Len(replies') = 1
                  /\ replies'[1].kind = "error") =>
             UNCHANGED << opened_files, balance, desc >> ]_vars

\* an open that went through mkdir and copy has replied EIO (tmp.file is
\* left, the cache file is not there) while the HandleTable holds another
\* inode with its count
C22_Witness ==
    /\ pc = "idle"
    /\ call.op = "open"
    /\ Len(replies) = 1
    /\ replies[1].kind = "error"
    /\ replies[1].err = "EIO"
    /\ tmp_file # None
    /\ ~CacheExists(EntryPath(call.ino))
    /\ call.ino \notin DOMAIN opened_files
    /\ \E ino \in DOMAIN opened_files : opened_files[ino].count = 2

====
